---- MODULE Spec2Model ----
(***************************************************************************)
(* Treasury event synchronisation: the sync-treasury-events edge function  *)
(* (the Ingestor), the treasury_transactions table it writes (the ledger), *)
(* and the UI path that records a just-confirmed transaction directly.     *)
(*                                                                         *)
(* One Ingestor run is a sequence of steps separated by the awaits of the  *)
(* handler; two runs and the UI writer interleave at those awaits.         *)
(*                                                                         *)
(* The second part is the reconcile-treasuries edge function (the          *)
(* Reconciler), which deletes rows of the treasuries table, and the client *)
(* hook useReconcileTreasuries that checks each treasury for contract code *)
(* and invokes it.                                                         *)
(*                                                                         *)
(* The third part is the treasury page: the useTreasury hook that submits  *)
(* withdrawAll and records the confirmed transaction in the ledger.        *)
(***************************************************************************)
EXTENDS Bags, FiniteSets, Integers, Sequences, TLC

VARIABLES ledger, head, runs, treasuries, calls, hooks, page

vars == <<ledger, head, runs, treasuries, calls, hooks, page>>

\* the state of the Ingestor part and of the Reconciler part
ingestVars == <<ledger, head, runs>>
reconcileVars == <<treasuries, calls, hooks>>

----------------------------------------------------------------------------
(* Bounds                                                                  *)

\* number of Ingestor invocations that may be in flight or completed
NumRuns == 2
\* highest block the chain head may reach
MaxBlock == 2

\* number of invocations of the reconcile-treasuries function
NumCalls == 2
\* number of runs of the reconcile hook
NumHooks == 1

RunIds == 1..NumRuns
Blocks == 0..MaxBlock
CallIds == 1..NumCalls
HookIds == 1..NumHooks

----------------------------------------------------------------------------
(* Values                                                                  *)

\* SQL NULL / JS null or undefined in an integer column or request field
NULL == -1

\* parseInt(undefined, 16): not a number
NaN == -2

\* the elements of a list
Range(seq) == { seq[k] : k \in 1..Len(seq) }

\* An address is a 40-hex-digit string; the model keeps which address it is
\* and whether the text holds upper-case hex digits.
Addr(h, m) == [h |-> h, mixed |-> m]

\* String.prototype.toLowerCase on an address
toLowerCase(a) == [a EXCEPT !.mixed = FALSE]

\* the registered treasuries: their rows in public.treasuries
T1 == "T1"
T2 == "T2"
T3 == "T3"
T4 == "T4"
TreasuryAddress == Addr("a1", FALSE)
Treasury2Address == Addr("a2", FALSE)
Treasury3Address == Addr("a3", FALSE)
Treasury4Address == Addr("a4", FALSE)
OwnerA == Addr("oa", TRUE)
OwnerB == Addr("ob", TRUE)
TokenAddress == Addr("k1", FALSE)
Operator == Addr("op", TRUE)
Recipient == Addr("rc", TRUE)
Funder == Addr("fd", TRUE)
MigrationTarget == Addr("mt", TRUE)

\* the rows of public.treasuries at the start; useCreateTreasury stores the
\* addresses in lower case
InitialTreasuries ==
    { [id |-> T1, address |-> TreasuryAddress, owner_address |-> toLowerCase(OwnerA),
       token_address |-> TokenAddress, migration_target |-> toLowerCase(MigrationTarget),
       chain_id |-> 1],
      [id |-> T2, address |-> Treasury2Address, owner_address |-> toLowerCase(OwnerA),
       token_address |-> TokenAddress, migration_target |-> toLowerCase(MigrationTarget),
       chain_id |-> 1],
      \* a row of another owner, registered with an empty token address
      [id |-> T3, address |-> Treasury3Address, owner_address |-> toLowerCase(OwnerB),
       token_address |-> Addr("", FALSE), migration_target |-> toLowerCase(MigrationTarget),
       chain_id |-> 1],
      \* a row of the first owner on another chain
      [id |-> T4, address |-> Treasury4Address, owner_address |-> toLowerCase(OwnerA),
       token_address |-> TokenAddress, migration_target |-> toLowerCase(MigrationTarget),
       chain_id |-> 2] }

EVENT_TOPICS == [Spend |-> "0x5d1d", Migration |-> "0x8b80", Transfer |-> "0xddf2"]

\* A 32-byte topic holding an address: 24 hex digits of padding, then the address
encodeAddressTopic(a) == [pad |-> 24, addr |-> toLowerCase(a)]
AddressTopic(a) == [pad |-> 24, addr |-> a]

\* "0x" + topic.slice(26).toLowerCase()
decodeAddress(topic) == toLowerCase(topic.addr)

----------------------------------------------------------------------------
(* The chain: an append-only list of logs; a log is visible once the head  *)
(* has reached its block.  data is the payload as 32-byte words, each word  *)
(* a big-endian sequence of hex digits (two of them here, 64 on chain).  *)

Log(addr, kind, t1, t2, data, b, tx, li) ==
    [address |-> addr, topics |-> <<EVENT_TOPICS[kind], AddressTopic(t1), AddressTopic(t2)>>,
     data |-> data, blockNumber |-> b, transactionHash |-> tx, logIndex |-> li]

ChainLogs ==
    { Log(TreasuryAddress, "Migration", Operator, Recipient,
          << <<6, 4>>, <<0, 2>>, <<3, 2>> >>, 0, "tx1", 0),
      Log(TreasuryAddress, "Spend", Operator, Recipient, << <<0, 7>>, <<0, 3>> >>, 1, "tx2", 0),
      Log(TreasuryAddress, "Spend", Operator, Recipient, << <<0, 9>>, <<0, 3>> >>, 1, "tx2", 1),
      Log(TokenAddress, "Transfer", Funder, TreasuryAddress, << <<1, 0>> >>, 0, "tx0", 1),
      Log(TokenAddress, "Transfer", Funder, TreasuryAddress, << <<2, 8>> >>, 2, "tx3", 0),
      \* the second treasury: a Spend log whose data the node returned cut short
      \* after its first word, then a well-formed one
      Log(Treasury2Address, "Spend", Operator, Recipient, << <<0, 5>> >>, 0, "tx5", 0),
      Log(Treasury2Address, "Spend", Operator, Recipient, << <<0, 6>>, <<0, 1>> >>, 1, "tx6", 0) }

\* block header timestamp (seconds), and its ISO form as written to the store
BlockTime(b) == 1700 + b
toISOString(sec) == sec * 1000

----------------------------------------------------------------------------
(* The ledger store: public.treasury_transactions                          *)

\* the event_type values the CHECK constraint accepts
AllowedEventTypes == {"spend", "migration", "deposit", "withdraw"}

\* rows of table L selected by .eq() filters
RowsOf(L, tid) == { x \in BagToSet(L) : x.treasury_id = tid }

\* treasury_transactions_tx_hash_key: UNIQUE (tx_hash)
TxHashTaken(L, row) == \E x \in BagToSet(L) : x.tx_hash = row.tx_hash

\* variant: the store without the UNIQUE (tx_hash) constraint
InsertErrorNoUnique(L, row) ==
    IF row.treasury_id \notin { t.id : t \in treasuries } THEN "23503"
    ELSE IF row.event_type \notin AllowedEventTypes THEN "23514"
    ELSE ""

\* the error an INSERT returns, "" when the row is accepted
InsertError(L, row) ==
    IF row.treasury_id \notin { t.id : t \in treasuries } THEN "23503"
    ELSE IF row.event_type \notin AllowedEventTypes THEN "23514"
    ELSE IF TxHashTaken(L, row) THEN "23505"
    ELSE ""

\* variant: a write that replaces the rows the treasury already has
InsertRowReplacing(L, row) ==
    LET kept == { x \in BagToSet(L) : x.treasury_id # row.treasury_id }
    IN  [x \in kept |-> CopiesIn(x, L)] (+) SetToBag({row})

\* the table after a successful INSERT
InsertRow(L, row) == L (+) SetToBag({row})

\* .eq(tx_hash).eq(treasury_id).eq(log_index).eq(event_type).single():
\* data is non-null exactly when one row matches
Existing(L, tid, tx, li, et) ==
    LET m == { x \in BagToSet(L) : /\ x.tx_hash = tx
                                   /\ x.treasury_id = tid
                                   /\ x.log_index # NULL
                                   /\ x.log_index = li
                                   /\ x.event_type = et }
    IN  Cardinality(m) = 1 /\ \A x \in m : CopiesIn(x, L) = 1

\* .eq(treasury_id).order(block_number desc).limit(1).single():
\* the block_number of the row returned, NULL when there is no row
LastTxBlock(L, tid) ==
    IF RowsOf(L, tid) = {} THEN NULL
    ELSE CHOOSE b \in { x.block_number : x \in RowsOf(L, tid) } :
             \A x \in RowsOf(L, tid) : x.block_number <= b

----------------------------------------------------------------------------
(* Chain RPC                                                               *)

\* a set of logs in chain order (block number, then log index)
RECURSIVE InChainOrder(_)
InChainOrder(S) ==
    IF S = {} THEN <<>>
    ELSE LET first == CHOOSE l \in S : \A m \in S :
                         \/ l.blockNumber < m.blockNumber
                         \/ l.blockNumber = m.blockNumber /\ l.logIndex <= m.logIndex
         IN  <<first>> \o InChainOrder(S \ {first})

\* variant: the policy-log request sent without its fromBlock
PolicyLogsNoLowerBound(address, fromBlock, toBlock) ==
    InChainOrder({ l \in ChainLogs : /\ l.address.h = address.h
                                     /\ l.blockNumber <= toBlock
                                     /\ l.topics[1] \in {EVENT_TOPICS.Spend, EVENT_TOPICS.Migration} })

\* eth_getLogs {address, fromBlock, toBlock, topics: [[Spend, Migration]]}
PolicyLogs(address, fromBlock, toBlock) ==
    InChainOrder({ l \in ChainLogs : /\ l.address.h = address.h
                                     /\ fromBlock <= l.blockNumber
                                     /\ l.blockNumber <= toBlock
                                     /\ l.topics[1] \in {EVENT_TOPICS.Spend, EVENT_TOPICS.Migration} })

\* eth_getLogs {address: token, fromBlock, toBlock, topics: [Transfer, null, to]}
TransferLogs(token, address, fromBlock, toBlock) ==
    InChainOrder({ l \in ChainLogs : /\ l.address.h = token.h
                                     /\ fromBlock <= l.blockNumber
                                     /\ l.blockNumber <= toBlock
                                     /\ l.topics[1] = EVENT_TOPICS.Transfer
                                     /\ l.topics[3].addr.h = encodeAddressTopic(address).addr.h })

----------------------------------------------------------------------------
(* Decoding a log into a ledger row                                        *)

\* BigInt(hex) of a non-empty string of hex digits
RECURSIVE decodeUint256(_)
decodeUint256(hex) ==
    IF Len(hex) = 0 THEN 0
    ELSE 16 * decodeUint256(SubSeq(hex, 1, Len(hex) - 1)) + hex[Len(hex)]

\* BigInt.prototype.toString(): the decimal digits, most significant first
RECURSIVE toString(_)
toString(n) == IF n < 10 THEN <<n>> ELSE Append(toString(n \div 10), n % 10)

\* data.slice(2 + 64 * (k - 1), 2 + 64 * k): word k, empty past the end of data
slice(data, k) == IF k <= Len(data) THEN data[k] ELSE <<>>

\* the whole of data after "0x"
RECURSIVE hexOf(_)
hexOf(data) == IF data = <<>> THEN <<>> ELSE Head(data) \o hexOf(Tail(data))

\* topic 0 -> event_type of a policy-contract log, "" for an unknown topic
PolicyEventType(topic0) ==
    IF topic0 = EVENT_TOPICS.Spend THEN "spend"
    ELSE IF topic0 = EVENT_TOPICS.Migration THEN "migration"
    ELSE ""

\* event_type given to a token-transfer log
TransferEventType == "fund"

\* BigInt("0x" + data.slice(..)) throws when the slice is empty
PolicyDecodeThrows(log) ==
    PolicyEventType(log.topics[1]) # "" /\ Len(log.data) < 2
TransferDecodeThrows(log) == Len(log.data) = 0

\* variant: amount and period index read from each other's word
PolicyRowWordsSwapped(tid, log) ==
    [treasury_id |-> tid,
     tx_hash |-> log.transactionHash,
     block_number |-> log.blockNumber,
     block_timestamp |-> toISOString(BlockTime(log.blockNumber)),
     event_type |-> PolicyEventType(log.topics[1]),
     from_address |-> decodeAddress(log.topics[2]),
     to_address |-> decodeAddress(log.topics[3]),
     amount |-> toString(decodeUint256(slice(log.data, 2))),
     period_index |-> decodeUint256(slice(log.data, 1)),
     log_index |-> log.logIndex]

PolicyRow(tid, log) ==
    [treasury_id |-> tid,
     tx_hash |-> log.transactionHash,
     block_number |-> log.blockNumber,
     block_timestamp |-> toISOString(BlockTime(log.blockNumber)),
     event_type |-> PolicyEventType(log.topics[1]),
     from_address |-> decodeAddress(log.topics[2]),
     to_address |-> decodeAddress(log.topics[3]),
     amount |-> toString(decodeUint256(slice(log.data, 1))),
     period_index |-> decodeUint256(slice(log.data, 2)),
     log_index |-> log.logIndex]

TransferRow(tid, log) ==
    [treasury_id |-> tid,
     tx_hash |-> log.transactionHash,
     block_number |-> log.blockNumber,
     block_timestamp |-> toISOString(BlockTime(log.blockNumber)),
     event_type |-> TransferEventType,
     from_address |-> decodeAddress(log.topics[2]),
     to_address |-> decodeAddress(log.topics[3]),
     amount |-> toString(decodeUint256(hexOf(log.data))),
     period_index |-> NULL,
     log_index |-> log.logIndex]

\* the entry pushed to processedEvents for an inserted row
ProcessedEvent(row) ==
    [event_type |-> row.event_type, tx_hash |-> row.tx_hash,
     block_number |-> row.block_number, from_address |-> row.from_address,
     to_address |-> row.to_address, amount |-> row.amount,
     period_index |-> row.period_index]

----------------------------------------------------------------------------
(* One Ingestor run                                                        *)

HexAddrs == {"a1", "a2", "a3", "a4", "k1", "op", "rc", "fd", "oa", "ob"}

\* /^0x[a-fA-F0-9]{40}$/.test(treasuryAddress)
ValidAddress(a) == a.h \in HexAddrs

\* request bodies: treasuryAddress "" and treasuryId "" stand for a missing field
Requests ==
    [treasuryAddress : {TreasuryAddress}, treasuryId : {T1}, fromBlock : {NULL} \cup Blocks]
    \cup [treasuryAddress : {Treasury2Address}, treasuryId : {T2}, fromBlock : {NULL}]
    \cup [treasuryAddress : {Treasury3Address}, treasuryId : {T3}, fromBlock : {NULL}]
    \cup [treasuryAddress : {Addr("", FALSE), Addr("zz", FALSE)}, treasuryId : {T1}, fromBlock : {NULL}]
    \cup [treasuryAddress : {TreasuryAddress}, treasuryId : {"", "T9"}, fromBlock : {NULL}]

\* a response ends the run
Respond(run, status, error) == [run EXCEPT !.pc = "done", !.status = status, !.error = error]

IdleRun ==
    [pc |-> "idle", treasuryAddress |-> Addr("", FALSE), treasuryId |-> "", fromBlock |-> NULL,
     tokenAddress |-> Addr("", FALSE), startBlock |-> NULL, currentBlock |-> NULL,
     logs |-> <<>>, transferLogs |-> <<>>, i |-> 0, cache |-> {},
     processedEvents |-> <<>>, status |-> 0, error |-> "", body |-> <<>>,
     \* history: what the run has seen and done; io holds the kinds of I/O made
     io |-> {},
     after |-> {}, inserted |-> {}, failed |-> {}, lost |-> {},
     fault |-> "", failedBlock |-> NULL,
     \* history: the block numbers of the eth_getBlockByNumber requests, in order
     requests |-> <<>>,
     \* history: how eth_blockNumber was answered, and the toBlock of the eth_getLogs
     \* requests that were sent (NULL when none was)
     blockNumResult |-> "", toBlock |-> NULL]

\* const startBlock = fromBlock || (lastTx?.block_number ? lastTx.block_number + 1 : 0)
startBlock(fromBlock, lastTxBlock) ==
    IF fromBlock # NULL /\ fromBlock # 0 THEN fromBlock
    ELSE IF lastTxBlock # NULL /\ lastTxBlock # 0 THEN lastTxBlock + 1
    ELSE 0

\* variant: the address format is not tested
ValidationErrorNoFormat(req) ==
    IF req.treasuryAddress.h = "" \/ req.treasuryId = ""
      THEN "treasuryAddress and treasuryId are required"
    ELSE ""

\* the error of the 400 response to a request, "" when the request is accepted
ValidationError(req) ==
    IF req.treasuryAddress.h = "" \/ req.treasuryId = ""
      THEN "treasuryAddress and treasuryId are required"
    ELSE IF ~ValidAddress(req.treasuryAddress)
      THEN "Invalid treasury address format"
    ELSE ""

\* variant: only the lookup error is tested, not the token address
ResolutionErrorRowOnly(row) ==
    IF Cardinality(row) # 1 THEN "Failed to resolve treasury token_address" ELSE ""

\* treasuryError || !treasuryRow?.token_address, for the rows .single() selected from
ResolutionError(row) ==
    IF Cardinality(row) # 1 \/ \E t \in row : t.token_address.h = ""
      THEN "Failed to resolve treasury token_address"
    ELSE ""

\* request parsing, validation, token resolution and the cursor read
StartRun(r, req) ==
    /\ runs[r].pc = "idle"
    /\ LET run0 == [runs[r] EXCEPT !.treasuryAddress = req.treasuryAddress,
                                   !.treasuryId = req.treasuryId,
                                   !.fromBlock = req.fromBlock,
                                   !.after = { q \in RunIds : runs[q].pc = "done" }]
           row == { t \in treasuries : t.id = req.treasuryId }
       IN  runs' = [runs EXCEPT ![r] =
             IF ValidationError(req) # ""
               THEN Respond(run0, 400, ValidationError(req))
             ELSE IF ResolutionError(row) # ""
               THEN Respond([run0 EXCEPT !.io = {"read"}], 500, ResolutionError(row))
             ELSE [run0 EXCEPT !.pc = "fetch", !.io = {"read"},
                               !.tokenAddress = toLowerCase((CHOOSE t \in row : TRUE).token_address),
                               !.startBlock = startBlock(req.fromBlock, LastTxBlock(ledger, req.treasuryId))]]
    /\ UNCHANGED <<page, ledger, head, reconcileVars>>

\* the outcome of one JSON-RPC call: a result, an error envelope, or a transport exception
RpcOutcomes == {"ok", "error", "throw"}

\* variant: the transfer-log result is not checked for an error envelope
FetchFailurePolicyOnly(logsResult, transferLogsResult) ==
    IF logsResult = "throw" \/ transferLogsResult = "throw" THEN "Internal server error"
    ELSE IF logsResult = "error" THEN "RPC error fetching logs"
    ELSE ""

\* the error the handler answers with after the two eth_getLogs calls, "" when it goes on
FetchFailure(logsResult, transferLogsResult) ==
    IF logsResult = "throw" \/ transferLogsResult = "throw" THEN "Internal server error"
    ELSE IF logsResult = "error" THEN "RPC error fetching logs"
    ELSE IF transferLogsResult = "error" THEN "RPC error fetching transfer logs"
    ELSE ""

\* variant: syncedTo reports the block of the last event processed
SuccessBodyLastEvent(run) ==
    [success |-> TRUE,
     syncedFrom |-> run.startBlock,
     syncedTo |-> IF run.processedEvents = <<>> THEN run.startBlock
                  ELSE run.processedEvents[Len(run.processedEvents)].block_number,
     eventsProcessed |-> Len(run.processedEvents),
     events |-> run.processedEvents]

\* the JSON body of the success response
SuccessBody(run) ==
    [success |-> TRUE,
     syncedFrom |-> run.startBlock,
     syncedTo |-> run.currentBlock,
     eventsProcessed |-> Len(run.processedEvents),
     events |-> run.processedEvents]

\* where the run stands once log i of a loop is dealt with; after the last log of
\* the last loop the success response follows at once
AfterLog(run, phase, i) ==
    IF phase = "policy" /\ i < Len(run.logs) THEN [run EXCEPT !.pc = "policy", !.i = i + 1]
    ELSE IF phase = "policy" /\ Len(run.transferLogs) > 0 THEN [run EXCEPT !.pc = "transfer", !.i = 1]
    ELSE IF phase = "transfer" /\ i < Len(run.transferLogs) THEN [run EXCEPT !.pc = "transfer", !.i = i + 1]
    ELSE Respond([run EXCEPT !.i = 0, !.body = SuccessBody(run)], 200, "")

\* parseInt(blockNumResult.result, 16): an error envelope has no result
currentBlock(blockNumResult) == IF blockNumResult = "ok" THEN head ELSE NaN

\* the node answers an eth_getLogs request whose toBlock is "0xNaN" with an error
\* envelope, or the call fails: it has no logs to give for it
NodeAnswers(toBlock, result) == toBlock = NaN => result # "ok"

\* eth_blockNumber, the two eth_getLogs calls and their error checks; when the
\* eth_blockNumber call throws the handler is in its catch block and sends no other
FetchLogs(r, blockNumResult, logsResult, transferLogsResult) ==
    /\ runs[r].pc = "fetch"
    /\ blockNumResult # "throw" =>
          /\ NodeAnswers(currentBlock(blockNumResult), logsResult)
          /\ NodeAnswers(currentBlock(blockNumResult), transferLogsResult)
    /\ LET run == runs[r]
           failure == IF blockNumResult = "throw" THEN "Internal server error"
                      ELSE FetchFailure(logsResult, transferLogsResult)
           \* history: an RPC call of the fetch step did not return a result
           failed == \/ blockNumResult = "throw"
                     \/ logsResult # "ok" \/ transferLogsResult # "ok"
           run1 == [run EXCEPT !.currentBlock = IF blockNumResult = "throw" THEN @
                                                ELSE currentBlock(blockNumResult),
                               !.io = @ \cup {"rpc"},
                               !.fault = IF failed THEN "fetch" ELSE @,
                               !.blockNumResult = blockNumResult,
                               !.toBlock = IF blockNumResult = "throw" THEN @
                                           ELSE currentBlock(blockNumResult)]
           \* const logs = logsResult.result || []
           run2 == [run1 EXCEPT
                      !.logs = IF logsResult = "ok"
                                 THEN PolicyLogs(run.treasuryAddress, run.startBlock, head)
                                 ELSE <<>>,
                      !.transferLogs = IF transferLogsResult = "ok"
                                         THEN TransferLogs(run.tokenAddress, run.treasuryAddress,
                                                           run.startBlock, head)
                                         ELSE <<>>]
       IN  runs' = [runs EXCEPT ![r] =
             IF failure # "" THEN Respond(run1, 500, failure)
             ELSE AfterLog(run2, "policy", 0)]
    /\ UNCHANGED <<page, ledger, head, reconcileVars>>

\* variant: the event is pushed whether or not the insert succeeded
PushProcessedAlways(events, err, row) == Append(events, ProcessedEvent(row))

\* processedEvents after an insert that returned err
PushProcessed(events, err, row) ==
    IF err = "" THEN Append(events, ProcessedEvent(row)) ELSE events

\* variant: a fetched timestamp is not kept
cacheSetNever(cache, blockNumberHex) == cache

\* blockTimestampCache.set(blockNumberHex, timestamp): the keys of the cache
cacheSet(cache, blockNumberHex) == cache \cup {blockNumberHex}

\* one log of a loop up to the existence check: getBlockTimestamp
\* (tsOk: the eth_getBlockByNumber call answered with a block), decode, select
ProcessLog(r, phase, tsOk) ==
    /\ runs[r].pc = phase
    /\ LET run == runs[r]
           log == IF phase = "policy" THEN run.logs[run.i] ELSE run.transferLogs[run.i]
           cached == log.blockNumber \in run.cache
           asked == IF cached THEN run.requests ELSE Append(run.requests, log.blockNumber)
           run1 == [run EXCEPT !.cache = cacheSet(@, log.blockNumber), !.requests = asked]
           throws == IF phase = "policy" THEN PolicyDecodeThrows(log) ELSE TransferDecodeThrows(log)
           et == IF phase = "policy" THEN PolicyEventType(log.topics[1]) ELSE TransferEventType
           known == IF phase = "policy" THEN et # "" ELSE log.topics[1] = EVENT_TOPICS.Transfer
       IN  /\ cached => tsOk
           /\ runs' = [runs EXCEPT ![r] =
                IF ~cached /\ ~tsOk
                  THEN [Respond(run, 500, "Internal server error") EXCEPT
                          !.fault = "timestamp", !.failedBlock = log.blockNumber,
                          !.requests = asked]
                ELSE IF ~known THEN AfterLog(run1, phase, run.i)
                ELSE IF throws
                  THEN [Respond(run1, 500, "Internal server error") EXCEPT !.fault = "decode"]
                ELSE IF Existing(ledger, run.treasuryId, log.transactionHash, log.logIndex, et)
                  THEN AfterLog(run1, phase, run.i)
                ELSE [run1 EXCEPT !.pc = phase \o "Insert"]]
    /\ UNCHANGED <<page, ledger, head, reconcileVars>>

\* variant: an insert error is thrown instead of logged
InsertOutcomeAbort(run, phase, err, row) ==
    IF err # "" THEN Respond(run, 500, "Internal server error")
    ELSE AfterLog([run EXCEPT !.processedEvents = PushProcessed(@, err, row)], phase, run.i)

\* the run after an insert returned err: an error is logged and the loop goes on,
\* a success is pushed to processedEvents
InsertOutcome(run, phase, err, row) ==
    AfterLog([run EXCEPT !.processedEvents = PushProcessed(@, err, row)], phase, run.i)

\* the insert of a log that was not found
InsertLog(r, phase) ==
    /\ runs[r].pc = phase \o "Insert"
    /\ LET run == runs[r]
           log == IF phase = "policy" THEN run.logs[run.i] ELSE run.transferLogs[run.i]
           row == IF phase = "policy" THEN PolicyRow(run.treasuryId, log)
                                      ELSE TransferRow(run.treasuryId, log)
           err == InsertError(ledger, row)
           key == <<log.transactionHash, row.event_type, log.logIndex>>
           run1 == [run EXCEPT !.io = @ \cup {"write"},
                               !.inserted = IF err = "" THEN @ \cup {key} ELSE @,
                               !.failed = IF err # "" THEN @ \cup {key} ELSE @,
                               !.lost = IF err = "23505" THEN @ \cup {key} ELSE @]
       IN  /\ ledger' = IF err = "" THEN InsertRow(ledger, row) ELSE ledger
           /\ runs' = [runs EXCEPT ![r] = InsertOutcome(run1, phase, err, row)]
    /\ UNCHANGED <<page, head, reconcileVars>>

ProcessPolicyLog(r) == \E tsOk \in BOOLEAN : ProcessLog(r, "policy", tsOk)
InsertPolicyLog(r) == InsertLog(r, "policy")
ProcessTransferLog(r) == \E tsOk \in BOOLEAN : ProcessLog(r, "transfer", tsOk)
InsertTransferLog(r) == InsertLog(r, "transfer")

----------------------------------------------------------------------------
(* The UI direct-write path                                                *)

\* SpendForm.recordSpendTransaction: the payload for a confirmed spend (no log_index)
SpendPayload ==
    [treasury_id |-> T1, tx_hash |-> "tx2", block_number |-> 1,
     block_timestamp |-> toISOString(BlockTime(1)), event_type |-> "spend",
     from_address |-> TreasuryAddress, to_address |-> Recipient,
     amount |-> toString(7), period_index |-> NULL, log_index |-> NULL]

\* useTreasury.recordWithdrawAll: the payload for a confirmed withdrawAll
WithdrawPayload ==
    [treasury_id |-> T1, tx_hash |-> "tx4", block_number |-> 2,
     block_timestamp |-> toISOString(BlockTime(2)), event_type |-> "withdraw",
     from_address |-> TreasuryAddress, to_address |-> Recipient,
     amount |-> toString(60), period_index |-> NULL, log_index |-> 0]

\* useRecordTransaction.mutationFn: lower-case the addresses and insert
RecordTransaction(tx) ==
    /\ tx.block_number <= head
    /\ LET row == [tx EXCEPT !.from_address = toLowerCase(@), !.to_address = toLowerCase(@)]
       IN  /\ InsertError(ledger, row) = ""
           /\ ledger' = InsertRow(ledger, row)
    /\ UNCHANGED <<page, head, runs, reconcileVars>>

\* useTreasuryHasMigration.queryFn on table L: count of the rows of the treasury
\* with event_type "migrate" is above zero
useTreasuryHasMigration(L, treasuryId) ==
    Cardinality({ x \in RowsOf(L, treasuryId) : x.event_type = "migrate" }) > 0

\* the chain produces a block
AdvanceHead ==
    /\ head < MaxBlock
    /\ head' = head + 1
    /\ UNCHANGED <<page, ledger, runs, reconcileVars>>

----------------------------------------------------------------------------
(* The Reconciler: the reconcile-treasuries edge function                  *)

\* the staleTreasuryIds lists of the request bodies: ids of rows of the owner,
\* of another owner, of another chain, an unknown id, an empty id, a repeated id
StaleLists == { <<>>, <<T1>>, <<T1, T2>>, <<T3, T4, "T9", T1>>, <<"", T2, T2>> }

\* request bodies: chainId NULL stands for a value that is not a finite number,
\* isArray FALSE for a staleTreasuryIds that is not an array
ReconcileRequests ==
    [ownerAddress : {OwnerA, OwnerB}, chainId : {1, 2},
     staleTreasuryIds : StaleLists, isArray : {TRUE}]
    \cup [ownerAddress : {Addr("", FALSE), Addr("zz", FALSE)}, chainId : {1},
          staleTreasuryIds : {<<T1>>}, isArray : {TRUE}]
    \cup [ownerAddress : {OwnerA}, chainId : {NULL},
          staleTreasuryIds : {<<T1>>}, isArray : {TRUE}]
    \cup [ownerAddress : {OwnerA}, chainId : {1},
          staleTreasuryIds : {<<>>}, isArray : {FALSE}]

IdleCall ==
    [pc |-> "idle",
     request |-> [ownerAddress |-> Addr("", FALSE), chainId |-> NULL,
                  staleTreasuryIds |-> <<>>, isArray |-> FALSE],
     origin |-> 0, deletableIds |-> {}, status |-> 0, error |-> "", body |-> <<>>,
     \* history: the ids of the rows this invocation removed, and the kinds of
     \* store access it made
     removed |-> {}, io |-> {}]

\* variant: chainId is not tested
ReconcileValidationErrorNoChainId(req) ==
    IF req.ownerAddress.h = "" \/ ~ValidAddress(req.ownerAddress) THEN "Invalid ownerAddress"
    ELSE IF ~req.isArray THEN "staleTreasuryIds must be an array"
    ELSE ""

\* the error of the 400 response to a request, "" when the request is accepted
ReconcileValidationError(req) ==
    IF req.ownerAddress.h = "" \/ ~ValidAddress(req.ownerAddress) THEN "Invalid ownerAddress"
    ELSE IF req.chainId = NULL THEN "Invalid chainId"
    ELSE IF ~req.isArray THEN "staleTreasuryIds must be an array"
    ELSE ""

\* staleTreasuryIds.map(String).filter(Boolean)
requestedIds(req) == SelectSeq(req.staleTreasuryIds, LAMBDA id : id # "")

\* variant: the owner compared as it was submitted
deletableIdsCaseSensitive(T, req) ==
    { t.id : t \in { u \in T : /\ u.owner_address = req.ownerAddress
                                /\ u.chain_id = req.chainId
                                /\ u.id \in Range(requestedIds(req)) } }

\* variant: the lookup without its id filter
deletableIdsAllOfOwner(T, req) ==
    { t.id : t \in { u \in T : /\ u.owner_address = toLowerCase(req.ownerAddress)
                                /\ u.chain_id = req.chainId } }

\* variant: the lookup without its owner_address filter
deletableIdsAnyOwner(T, req) ==
    { t.id : t \in { u \in T : /\ u.chain_id = req.chainId
                                /\ u.id \in Range(requestedIds(req)) } }

\* the ids .eq(owner_address).eq(chain_id).in(id, requestedIds) selects from table T
deletableIds(T, req) ==
    { t.id : t \in { u \in T : /\ u.owner_address = toLowerCase(req.ownerAddress)
                                /\ u.chain_id = req.chainId
                                /\ u.id \in Range(requestedIds(req)) } }

\* the JSON body of the success response
ReconcileBody(req, deletedCount) ==
    [chainId |-> req.chainId, ownerAddress |-> toLowerCase(req.ownerAddress),
     scanned |-> Len(requestedIds(req)), deleted |-> deletedCount]

\* the function answers
RespondCall(call, status, error, body) ==
    [call EXCEPT !.pc = "done", !.status = status, !.error = error, !.body = body]

\* a client invokes the function with a request body
Invoke(c, req) ==
    /\ calls[c].pc = "idle"
    /\ calls' = [calls EXCEPT ![c] = [@ EXCEPT !.pc = "received", !.request = req]]
    /\ UNCHANGED <<page, ingestVars, treasuries, hooks>>

\* variant: the rows are deleted in the round trip that looks them up
ReconcileLookupDeleting(c, lookupOk) ==
    /\ calls[c].pc = "received"
    /\ LET call == calls[c]
           req == call.request
           valid == ReconcileValidationError(req) = "" /\ Len(requestedIds(req)) > 0
           ids == IF valid /\ lookupOk THEN deletableIds(treasuries, req) ELSE {}
       IN  /\ treasuries' = { t \in treasuries : t.id \notin ids }
           /\ calls' = [calls EXCEPT ![c] =
                 IF ReconcileValidationError(req) # ""
                   THEN RespondCall(call, 400, ReconcileValidationError(req), <<>>)
                 ELSE IF Len(requestedIds(req)) = 0
                   THEN RespondCall(call, 200, "", ReconcileBody(req, 0))
                 ELSE IF ~lookupOk
                   THEN RespondCall([call EXCEPT !.io = {"read"}], 500,
                                    "Failed to verify treasuries", <<>>)
                 ELSE IF ids = {}
                   THEN RespondCall([call EXCEPT !.io = {"read"}], 200, "", ReconcileBody(req, 0))
                 ELSE [call EXCEPT !.pc = "delete", !.deletableIds = ids, !.io = {"read"}]]
    /\ UNCHANGED <<page, ingestVars, hooks>>

\* validation and the lookup of the rows to delete (lookupOk: the select returned no error)
ReconcileLookup(c, lookupOk) ==
    /\ calls[c].pc = "received"
    /\ LET call == calls[c]
           req == call.request
           ids == deletableIds(treasuries, req)
       IN  calls' = [calls EXCEPT ![c] =
             IF ReconcileValidationError(req) # ""
               THEN RespondCall(call, 400, ReconcileValidationError(req), <<>>)
             ELSE IF Len(requestedIds(req)) = 0
               THEN RespondCall(call, 200, "", ReconcileBody(req, 0))
             ELSE IF ~lookupOk
               THEN RespondCall([call EXCEPT !.io = {"read"}], 500,
                                "Failed to verify treasuries", <<>>)
             ELSE IF ids = {}
               THEN RespondCall([call EXCEPT !.io = {"read"}], 200, "", ReconcileBody(req, 0))
             ELSE [call EXCEPT !.pc = "delete", !.deletableIds = ids, !.io = {"read"}]]
    /\ UNCHANGED <<page, ingestVars, treasuries, hooks>>

\* variant: the foreign key without its ON DELETE CASCADE action taking effect
OnDeleteNoAction(L, goneIds) == L

\* treasury_transactions_treasury_id_fkey ... ON DELETE CASCADE: the ledger rows
\* that remain once the treasuries goneIds are deleted
OnDeleteCascade(L, goneIds) ==
    LET kept == { x \in BagToSet(L) : x.treasury_id \notin goneIds }
    IN  [x \in kept |-> CopiesIn(x, L)]

\* .delete().in("id", deletableIds) and the response (deleteOk: the delete returned
\* no error); the ledger rows of a deleted treasury go with it (ON DELETE CASCADE)
ReconcileDelete(c, deleteOk) ==
    /\ calls[c].pc = "delete"
    /\ LET call == calls[c]
           gone == { t \in treasuries : t.id \in call.deletableIds }
       IN  IF deleteOk
             THEN /\ treasuries' = treasuries \ gone
                  /\ ledger' = OnDeleteCascade(ledger, { t.id : t \in gone })
                  /\ calls' = [calls EXCEPT ![c] =
                        [RespondCall(call, 200, "",
                                     ReconcileBody(call.request, Cardinality(call.deletableIds)))
                           EXCEPT !.removed = { t.id : t \in gone }, !.io = @ \cup {"write"}]]
             ELSE /\ calls' = [calls EXCEPT ![c] =
                        RespondCall([call EXCEPT !.io = @ \cup {"write"}], 500,
                                    "Failed to delete stale treasuries", <<>>)]
                  /\ UNCHANGED <<treasuries, ledger>>
    /\ UNCHANGED <<page, head, runs, hooks>>

----------------------------------------------------------------------------
(* The reconcile hook: useReconcileTreasuries.mutationFn, in the file of   *)
(* that name and in the copy that follows the useTreasuryDB hooks          *)

HookSources == {"useReconcileTreasuries.ts", "part_000"}

HookParams == [ownerAddress : {OwnerA, OwnerB}, chainId : {1, 2}]

\* what publicClient.getBytecode gives for one address: the empty code "0x",
\* contract code, undefined, or an exception
BytecodeOutcomes == {"0x", "code", "undefined", "throw"}

IdleHook ==
    [pc |-> "idle", source |-> "", ownerAddress |-> Addr("", FALSE), chainId |-> NULL,
     rows |-> {}, checks |-> <<>>, call |-> 0, result |-> <<>>, error |-> "",
     \* history: the run invoked the function, and the ids it submitted
     invoked |-> FALSE, submitted |-> {}]

\* variant: a failed lookup is recorded with the empty code
codeOfFailureEmpty(outcome) == IF outcome = "throw" THEN "0x" ELSE outcome

\* the code recorded for a check: the catch block records undefined
codeOf(outcome) == IF outcome = "throw" THEN "undefined" ELSE outcome

\* checks.filter((c) => c.success)
successfulChecks(checks) == { id \in DOMAIN checks : checks[id] # "throw" }
\* successfulChecks.filter((c) => c.code === "0x")
staleChecks(checks) == { id \in successfulChecks(checks) : codeOf(checks[id]) = "0x" }
\* successfulChecks.filter((c) => c.code && c.code !== "0x")
hasContractChecks(checks) == { id \in successfulChecks(checks) : codeOf(checks[id]) = "code" }

\* the all-stale guard of useReconcileTreasuries.ts
AllStale(checks) ==
    /\ Cardinality(successfulChecks(checks)) > 0
    /\ Cardinality(staleChecks(checks)) = Cardinality(successfulChecks(checks))

\* variant: the stale ids are submitted without a check that found code
staleTreasuryIdsNoEvidence(source, checks) ==
    { id \in DOMAIN checks : checks[id] = "0x" }

\* the ids the hook submits, by source file
staleTreasuryIds(source, checks) ==
    IF source = "part_000" THEN { id \in DOMAIN checks : codeOf(checks[id]) = "0x" }
    ELSE IF hasContractChecks(checks) # {} THEN staleChecks(checks)
    ELSE {}

\* a set of ids as a list
RECURSIVE ListOf(_)
ListOf(S) == IF S = {} THEN <<>> ELSE LET x == CHOOSE y \in S : TRUE IN <<x>> \o ListOf(S \ {x})

\* the hook ends with a result or with an exception
ReturnHook(hook, result, error) ==
    [hook EXCEPT !.pc = "done", !.result = result, !.error = error]

\* the list of the owner's treasuries on the chain (listOk: the select returned no error)
HookList(h, source, params, listOk) ==
    /\ hooks[h].pc = "idle"
    /\ LET hook == [hooks[h] EXCEPT !.source = source,
                                    !.ownerAddress = params.ownerAddress,
                                    !.chainId = params.chainId]
           rows == { [id |-> t.id, address |-> t.address] :
                       t \in { u \in treasuries :
                                 /\ u.owner_address = toLowerCase(params.ownerAddress)
                                 /\ u.chain_id = params.chainId } }
       IN  hooks' = [hooks EXCEPT ![h] =
             IF ~listOk THEN ReturnHook(hook, <<>>, "Failed to list treasuries")
             ELSE IF source = "useReconcileTreasuries.ts" /\ rows = {}
               THEN ReturnHook(hook, [chainId |-> params.chainId,
                                      ownerAddress |-> toLowerCase(params.ownerAddress),
                                      scanned |-> 0, deleted |-> 0], "")
             ELSE [hook EXCEPT !.pc = "check", !.rows = rows]]
    /\ UNCHANGED <<page, ingestVars, treasuries, calls>>

\* the bytecode checks of all listed rows, the guard, and the invocation of the
\* function in invocation slot c
HookCheck(h, checks, c) ==
    /\ hooks[h].pc = "check"
    /\ DOMAIN checks = { row.id : row \in hooks[h].rows }
    /\ LET hook == [hooks[h] EXCEPT !.checks = checks]
           ids == staleTreasuryIds(hook.source, checks)
       IN  IF hook.source = "useReconcileTreasuries.ts" /\ AllStale(checks)
             THEN /\ hooks' = [hooks EXCEPT ![h] =
                        ReturnHook(hook, [chainId |-> hook.chainId,
                                          ownerAddress |-> toLowerCase(hook.ownerAddress),
                                          scanned |-> Cardinality(hook.rows),
                                          deleted |-> 0], "")]
                  \* no invocation is made: the slot is not used
                  /\ c = 1
                  /\ UNCHANGED calls
             ELSE /\ calls[c].pc = "idle"
                  /\ calls' = [calls EXCEPT ![c] =
                        [@ EXCEPT !.pc = "received", !.origin = h,
                                  !.request = [ownerAddress |-> hook.ownerAddress,
                                               chainId |-> hook.chainId,
                                               staleTreasuryIds |-> ListOf(ids),
                                               isArray |-> TRUE]]]
                  /\ hooks' = [hooks EXCEPT ![h] =
                        [hook EXCEPT !.pc = "invoked", !.call = c,
                                     !.invoked = TRUE, !.submitted = ids]]
    /\ UNCHANGED <<page, ingestVars, treasuries>>

\* the function has answered: the hook returns its body, or throws on an error status
HookReturn(h) ==
    /\ hooks[h].pc = "invoked"
    /\ calls[hooks[h].call].pc = "done"
    /\ LET call == calls[hooks[h].call]
       IN  hooks' = [hooks EXCEPT ![h] =
             IF call.status # 200 THEN ReturnHook(@, <<>>, "Failed to reconcile treasuries")
             ELSE ReturnHook(@, call.body, "")]
    /\ UNCHANGED <<page, ingestVars, treasuries, calls>>

----------------------------------------------------------------------------
(* Treasury registration: useCreateTreasury.mutationFn                     *)

Treasury5Address == Addr("a5", TRUE)

\* the treasuries a wallet registers, with the addresses as the wallet gives them
TreasuryInserts ==
    [address : {Treasury5Address, Addr("a1", TRUE)}, owner_address : {OwnerA},
     token_address : {Addr("k1", TRUE)}, migration_target : {MigrationTarget}]

\* gen_random_uuid(): ids a new row can get
NewIds == {"T5", "T6"}

\* ids that are or were the id of a row
UsedIds == { t.id : t \in treasuries } \cup UNION { calls[c].removed : c \in CallIds }

\* the payload of the upsert: the addresses in lower case, the chain of the wallet
Payload(treasury, chainId) ==
    [address |-> toLowerCase(treasury.address),
     owner_address |-> toLowerCase(treasury.owner_address),
     token_address |-> toLowerCase(treasury.token_address),
     migration_target |-> toLowerCase(treasury.migration_target),
     chain_id |-> chainId]

\* .upsert(payload, {onConflict: "address", ignoreDuplicates: true}) on table T,
\* a new row getting id
Upsert(T, payload, id) ==
    IF \E t \in T : t.address = payload.address THEN T
    ELSE T \cup { [id |-> id, address |-> payload.address,
                   owner_address |-> payload.owner_address,
                   token_address |-> payload.token_address,
                   migration_target |-> payload.migration_target,
                   chain_id |-> payload.chain_id] }

\* a wallet on chain chainId registers a treasury
CreateTreasury(treasury, chainId) ==
    /\ \E id \in NewIds \ UsedIds :
          treasuries' = Upsert(treasuries, Payload(treasury, chainId), id)
    /\ UNCHANGED <<page, ingestVars, calls, hooks>>

----------------------------------------------------------------------------
(* The treasury page of T1: useTreasury, its withdrawAll write, the receipt *)
(* wait, the two effects on isWithdrawAllSuccess and recordWithdrawAll      *)

\* most runs of recordWithdrawAll that may be in flight
MaxAttempts == 2

IdlePage ==
    [withdrawAllHash |-> "", isWithdrawAllSuccess |-> FALSE, treasuryDB |-> "",
     resetPending |-> FALSE, attempts |-> 0,
     \* history: the transaction was confirmed; recordWithdrawAll runs that ended
     confirmed |-> FALSE, ended |-> 0]

\* the effect with resetWithdrawAll(), run after a render with the values p
resetEffect(p) == IF p.isWithdrawAllSuccess THEN [p EXCEPT !.resetPending = TRUE] ELSE p

\* the effect with recordWithdrawAll(), run after a render with the values p: its two
\* early returns, then the asynchronous part is under way
recordEffect(p) ==
    IF ~p.isWithdrawAllSuccess \/ p.withdrawAllHash = "" THEN p
    ELSE IF p.treasuryDB = "" THEN p
    ELSE [p EXCEPT !.attempts = @ + 1]

\* withdrawAll(): writeWithdrawAllAsync has returned the transaction hash
SubmitWithdrawAll ==
    /\ page.withdrawAllHash = "" /\ ~page.confirmed
    /\ page' = [page EXCEPT !.withdrawAllHash = WithdrawPayload.tx_hash]
    /\ UNCHANGED <<ledger, head, runs, treasuries, calls, hooks>>

\* useWaitForTransactionReceipt reports success: the render runs both effects, the
\* reset effect first
ConfirmWithdrawAll ==
    /\ page.withdrawAllHash # "" /\ ~page.isWithdrawAllSuccess
    /\ WithdrawPayload.block_number <= head
    /\ page' = recordEffect(resetEffect(
                  [page EXCEPT !.isWithdrawAllSuccess = TRUE, !.confirmed = TRUE]))
    /\ UNCHANGED <<ledger, head, runs, treasuries, calls, hooks>>

\* useTreasuryByAddress has its row: the render runs recordWithdrawAll again
\* (treasuryDB is one of its dependencies)
LoadTreasuryDB ==
    /\ page.treasuryDB = ""
    /\ \E t \in treasuries :
          /\ t.address = toLowerCase(TreasuryAddress)
          /\ page' = recordEffect([page EXCEPT !.treasuryDB = t.id])
    /\ UNCHANGED <<ledger, head, runs, treasuries, calls, hooks>>

\* the state change of resetWithdrawAll() is rendered: no hash, no success
ResetWithdrawAll ==
    /\ page.resetPending
    /\ page' = recordEffect(resetEffect(
                  [page EXCEPT !.resetPending = FALSE, !.withdrawAllHash = "",
                               !.isWithdrawAllSuccess = FALSE]))
    /\ UNCHANGED <<ledger, head, runs, treasuries, calls, hooks>>

\* the mutation object of useRecordTransaction changes with its state: the render
\* runs recordWithdrawAll again (recordTransaction is one of its dependencies)
RerenderPage ==
    /\ page.attempts > 0 /\ page.attempts < MaxAttempts
    /\ page.attempts + page.ended < MaxAttempts
    /\ recordEffect(page) # page
    /\ page' = recordEffect(page)
    /\ UNCHANGED <<ledger, head, runs, treasuries, calls, hooks>>

\* the asynchronous part of one recordWithdrawAll run: receipt, block, the
\* WithdrawAll log, and the insert through useRecordTransaction; an error is logged
RecordWithdrawAll ==
    /\ page.attempts > 0
    /\ LET row == [WithdrawPayload EXCEPT !.treasury_id = page.treasuryDB,
                                          !.from_address = toLowerCase(@),
                                          !.to_address = toLowerCase(@)]
       IN  ledger' = IF InsertError(ledger, row) = "" THEN InsertRow(ledger, row) ELSE ledger
    /\ page' = [page EXCEPT !.attempts = @ - 1, !.ended = @ + 1]
    /\ UNCHANGED <<head, runs, treasuries, calls, hooks>>

----------------------------------------------------------------------------

Init ==
    /\ ledger = EmptyBag
    /\ head = 0
    /\ runs = [r \in RunIds |-> IdleRun]
    /\ treasuries = InitialTreasuries
    /\ calls = [c \in CallIds |-> IdleCall]
    /\ hooks = [h \in HookIds |-> IdleHook]
    /\ page = IdlePage

Next ==
    \/ \E r \in RunIds, req \in Requests : StartRun(r, req)
    \/ \E r \in RunIds, bo \in RpcOutcomes, po \in RpcOutcomes, to \in RpcOutcomes :
          FetchLogs(r, bo, po, to)
    \/ \E r \in RunIds : ProcessPolicyLog(r)
    \/ \E r \in RunIds : InsertPolicyLog(r)
    \/ \E r \in RunIds : ProcessTransferLog(r)
    \/ \E r \in RunIds : InsertTransferLog(r)
    \/ \E tx \in {SpendPayload, WithdrawPayload} : RecordTransaction(tx)
    \/ AdvanceHead

Spec == Init /\ [][Next]_vars

\* the Reconciler and the reconcile hook, on the treasuries registered at the start
NextReconcile ==
    \/ \E c \in CallIds, req \in ReconcileRequests : Invoke(c, req)
    \/ \E c \in CallIds, lookupOk \in BOOLEAN : ReconcileLookup(c, lookupOk)
    \/ \E c \in CallIds, deleteOk \in BOOLEAN : ReconcileDelete(c, deleteOk)
    \/ \E h \in HookIds, source \in HookSources, params \in HookParams, listOk \in BOOLEAN :
          HookList(h, source, params, listOk)
    \/ \E h \in HookIds, c \in CallIds :
          \E checks \in [{ row.id : row \in hooks[h].rows } -> BytecodeOutcomes] :
              HookCheck(h, checks, c)
    \/ \E h \in HookIds : HookReturn(h)

SpecReconcile == Init /\ [][NextReconcile]_vars

\* the sync request for treasury T1 from its first block
SyncT1Requests == [treasuryAddress : {TreasuryAddress}, treasuryId : {T1}, fromBlock : {NULL}]

\* reconcile requests of the owner of T1 and T2
OwnerAStaleRequests ==
    [ownerAddress : {OwnerA}, chainId : {1}, staleTreasuryIds : {<<T1>>, <<T2>>, <<T1, T2>>},
     isArray : {TRUE}]

\* Ingestor runs and direct writes for treasury T1, interleaved with Reconciler
\* invocations that delete it; RPC and store calls are answered
\* the handler invocation that synchronises T1
SyncT1Runs == {1}

NextCascade ==
    \/ \E r \in SyncT1Runs, req \in SyncT1Requests : StartRun(r, req)
    \/ \E r \in SyncT1Runs : FetchLogs(r, "ok", "ok", "ok")
    \/ \E r \in SyncT1Runs : ProcessLog(r, "policy", TRUE)
    \/ \E r \in SyncT1Runs : InsertPolicyLog(r)
    \/ \E r \in SyncT1Runs : ProcessLog(r, "transfer", TRUE)
    \/ \E r \in SyncT1Runs : InsertTransferLog(r)
    \/ \E tx \in {SpendPayload, WithdrawPayload} : RecordTransaction(tx)
    \/ AdvanceHead
    \/ \E c \in CallIds, req \in OwnerAStaleRequests : Invoke(c, req)
    \/ \E c \in CallIds : ReconcileLookup(c, TRUE)
    \/ \E c \in CallIds : ReconcileDelete(c, TRUE)
    \/ \E h \in HookIds :
          HookList(h, "useReconcileTreasuries.ts", [ownerAddress |-> OwnerA, chainId |-> 1], TRUE)
    \/ \E h \in HookIds, c \in CallIds :
          \E checks \in [{ row.id : row \in hooks[h].rows } -> BytecodeOutcomes] :
              HookCheck(h, checks, c)
    \/ \E h \in HookIds : HookReturn(h)

SpecCascade == Init /\ [][NextCascade]_vars

\* sync requests for T1 with the address as the wallet gives it
SyncMixedRequests == [treasuryAddress : {Addr("a1", TRUE)}, treasuryId : {T1}, fromBlock : {NULL}]

\* reconcile requests with the owner address as the wallet gives it
ReconcileMixedRequests ==
    [ownerAddress : {OwnerA}, chainId : {1}, staleTreasuryIds : {<<T1>>, <<"T5">>},
     isArray : {TRUE}]

\* registrations, Ingestor runs, direct writes and Reconciler invocations whose
\* addresses come in mixed case
NextCase ==
    \/ \E treasury \in TreasuryInserts : CreateTreasury(treasury, 1)
    \/ \E r \in SyncT1Runs, req \in SyncMixedRequests : StartRun(r, req)
    \/ \E r \in SyncT1Runs : FetchLogs(r, "ok", "ok", "ok")
    \/ \E r \in SyncT1Runs : ProcessLog(r, "policy", TRUE)
    \/ \E r \in SyncT1Runs : InsertPolicyLog(r)
    \/ \E r \in SyncT1Runs : ProcessLog(r, "transfer", TRUE)
    \/ \E r \in SyncT1Runs : InsertTransferLog(r)
    \/ \E tx \in {SpendPayload, WithdrawPayload} : RecordTransaction(tx)
    \/ AdvanceHead
    \/ \E c \in CallIds, req \in ReconcileMixedRequests : Invoke(c, req)
    \/ \E c \in CallIds : ReconcileLookup(c, TRUE)
    \/ \E c \in CallIds : ReconcileDelete(c, TRUE)

SpecCase == Init /\ [][NextCase]_vars

\* sync requests that name treasury T1, with its own contract address or with the
\* contract address of treasury T2
SyncT1AnyAddressRequests ==
    [treasuryAddress : {TreasuryAddress, Treasury2Address}, treasuryId : {T1},
     fromBlock : {NULL, 1}]

\* Ingestor runs for treasury id T1 on requests whose address may be another contract's
NextAttribution ==
    \/ \E r \in RunIds, req \in SyncT1AnyAddressRequests : StartRun(r, req)
    \/ \E r \in RunIds : FetchLogs(r, "ok", "ok", "ok")
    \/ \E r \in RunIds : ProcessLog(r, "policy", TRUE)
    \/ \E r \in RunIds : InsertPolicyLog(r)
    \/ \E r \in RunIds : ProcessLog(r, "transfer", TRUE)
    \/ \E r \in RunIds : InsertTransferLog(r)
    \/ AdvanceHead

SpecAttribution == Init /\ [][NextAttribution]_vars

\* the treasury page through a withdrawAll, while the chain advances, a spend is
\* recorded directly and an Ingestor run synchronises the treasury
NextWithdraw ==
    \/ SubmitWithdrawAll
    \/ ConfirmWithdrawAll
    \/ LoadTreasuryDB
    \/ ResetWithdrawAll
    \/ RerenderPage
    \/ RecordWithdrawAll
    \/ AdvanceHead
    \/ RecordTransaction(SpendPayload)
    \/ \E r \in SyncT1Runs, req \in SyncT1Requests : StartRun(r, req)
    \/ \E r \in SyncT1Runs : FetchLogs(r, "ok", "ok", "ok")
    \/ \E r \in SyncT1Runs : ProcessLog(r, "policy", TRUE)
    \/ \E r \in SyncT1Runs : InsertPolicyLog(r)
    \/ \E r \in SyncT1Runs : ProcessLog(r, "transfer", TRUE)
    \/ \E r \in SyncT1Runs : InsertTransferLog(r)

\* every step of the page that can be taken is taken in the end, and the chain
\* produces its blocks
SpecWithdraw ==
    /\ Init /\ [][NextWithdraw]_vars
    /\ WF_vars(AdvanceHead)
    /\ WF_vars(SubmitWithdrawAll)
    /\ WF_vars(ConfirmWithdrawAll)
    /\ WF_vars(LoadTreasuryDB)
    /\ WF_vars(ResetWithdrawAll)
    /\ WF_vars(RecordWithdrawAll)

----------------------------------------------------------------------------
(* Properties                                                              *)

\* the logs a run was given by its two fetches
FetchedLogs(run) == Range(run.logs) \cup Range(run.transferLogs)

\* the ledger holds an entry for this log of this treasury
Recorded(tid, log) ==
    \E x \in BagToSet(ledger) : /\ x.treasury_id = tid
                                /\ x.tx_hash = log.transactionHash
                                /\ x.log_index = log.logIndex

\* run r was started after run q had answered, for the same treasury and block range
SecondPass(q, r) ==
    /\ q # r
    /\ runs[q].pc = "done" /\ runs[q].status = 200
    /\ q \in runs[r].after
    /\ runs[r].treasuryId = runs[q].treasuryId
    /\ runs[r].treasuryAddress = runs[q].treasuryAddress
    /\ runs[r].startBlock = runs[q].startBlock
    /\ runs[r].currentBlock = runs[q].currentBlock
    /\ runs[r].pc = "done"

\* C1: a run over the block range of an earlier completed run of the same treasury,
\* started after that run answered and served by the chain RPC without a fault,
\* inserts no row, reports no processed event and answers with success.
C1_Idempotent ==
    \A q, r \in RunIds :
        SecondPass(q, r) /\ runs[r].fault = ""
            => /\ runs[r].inserted = {}
               /\ runs[r].processedEvents = <<>>
               /\ runs[r].status = 200

\* a second pass that saw again logs the first pass had inserted, and a log whose
\* insert the store rejects in both passes
C1_Witness ==
    \E q, r \in RunIds :
        /\ SecondPass(q, r) /\ runs[r].fault = ""
        /\ runs[q].inserted # {}
        /\ runs[r].failed # {}
        /\ Len(runs[r].logs) > 1

\* C2: in every reachable ledger state no row is stored twice, no two rows share
\* (treasury_id, tx_hash, event_type, log_index), and no two runs have both
\* inserted the same log.
C2_KeyUnique ==
    /\ \A x \in BagToSet(ledger) : CopiesIn(x, ledger) = 1
    /\ \A x, y \in BagToSet(ledger) :
          ( /\ x.treasury_id = y.treasury_id /\ x.tx_hash = y.tx_hash
            /\ x.event_type = y.event_type /\ x.log_index = y.log_index ) => x = y
    /\ \A q, r \in RunIds :
          (q # r /\ runs[q].treasuryId = runs[r].treasuryId)
              => runs[q].inserted \cap runs[r].inserted = {}

\* two runs raced for one log: both passed the existence check, one insert
\* succeeded and the other was rejected
C2_Witness ==
    \E q, r \in RunIds : q # r /\ runs[q].inserted \cap runs[r].lost # {}

\* C3: after a completed run, two fetched logs of one transaction with different
\* log_index values are both in the ledger.
C3_BothLogsPersist ==
    \A r \in RunIds :
        (runs[r].pc = "done" /\ runs[r].status = 200)
            => \A l, m \in Range(runs[r].logs) :
                   (l.transactionHash = m.transactionHash /\ l.logIndex # m.logIndex)
                       => Recorded(runs[r].treasuryId, l) /\ Recorded(runs[r].treasuryId, m)

\* the step of a run whose insert is rejected for uniqueness: no response with an
\* error, nothing pushed, the loop is at its next log or the run has answered
LostRaceStep ==
    \A r \in RunIds :
        runs'[r].lost # runs[r].lost
            => /\ runs'[r].status \in {0, 200}
               /\ runs'[r].processedEvents = runs[r].processedEvents
               /\ \/ runs'[r].pc = "done"
                  \/ /\ runs[r].pc = "policyInsert" /\ runs'[r].pc = "policy"
                     /\ runs'[r].i = runs[r].i + 1
                  \/ /\ runs[r].pc = "policyInsert" /\ runs'[r].pc = "transfer"
                     /\ runs'[r].i = 1
                  \/ /\ runs[r].pc = "transferInsert" /\ runs'[r].pc = "transfer"
                     /\ runs'[r].i = runs[r].i + 1

\* the end of a run that lost a race and met no RPC or decode fault
LostRaceEnd ==
    \A r \in RunIds :
        (runs[r].pc = "done" /\ runs[r].lost # {} /\ runs[r].fault = "")
            => runs[r].status = 200

\* C4: a step in which an insert is rejected for uniqueness leaves the run in its
\* loop at the next log or at its success response, and a run that lost such a
\* race and met no RPC or decode fault ends with a success response.
C4_LostRaceNotAnError == [][LostRaceStep]_vars /\ []LostRaceEnd

\* a run that lost a uniqueness race to another run and then answered with success
C4_Witness ==
    \E q, r \in RunIds :
        /\ q # r /\ runs[q].inserted \cap runs[r].lost # {}
        /\ runs[r].pc = "done" /\ runs[r].status = 200

\* the highest block_number recorded for a treasury in table L
HighestBlock(L, tid) ==
    CHOOSE b \in { x.block_number : x \in RowsOf(L, tid) } :
        \A x \in RowsOf(L, tid) : b >= x.block_number

\* run r passes from its request to its fetch in this step
Resolves(r) == runs[r].pc = "idle" /\ runs'[r].pc = "fetch"

\* C5: a run without explicit fromBlock starts at one past the highest block
\* recorded for its treasury when the ledger has an entry for it (block 0
\* included), and at 0 when it has none.
C5_DerivedCursor ==
    [][\A r \in RunIds :
          (Resolves(r) /\ runs'[r].fromBlock = NULL)
              => runs'[r].startBlock =
                     IF RowsOf(ledger, runs'[r].treasuryId) = {} THEN 0
                     ELSE HighestBlock(ledger, runs'[r].treasuryId) + 1]_vars

\* C6: a run whose request supplies fromBlock (0 included) scans from that block
\* and reports it as syncedFrom, whatever the ledger holds.
C6_ExplicitOverrideWins ==
    \A r \in RunIds :
        (runs[r].fromBlock # NULL /\ runs[r].startBlock # NULL)
            => runs[r].startBlock = runs[r].fromBlock

\* the insert of log l was tried by the run and rejected by the store
Rejected(run, l) ==
    \E k \in run.failed : k[1] = l.transactionHash /\ k[3] = l.logIndex

\* C7: after a run that committed entries and then stopped part-way (an error
\* response, or a rejected insert), the lower bound the next run without
\* fromBlock derives is at most the block of every log of the interrupted range
\* that is not in the ledger.
C7_ResumeSkipsNoBlock ==
    \A q \in RunIds :
        ( /\ runs[q].pc = "done"
          /\ runs[q].inserted # {}
          /\ runs[q].status = 500 \/ runs[q].failed # {} )
            => \A l \in FetchedLogs(runs[q]) :
                   ~Recorded(runs[q].treasuryId, l)
                       => startBlock(NULL, LastTxBlock(ledger, runs[q].treasuryId)) <= l.blockNumber

\* C8: a run whose lower bound is above the chain head it read, and whose fetches
\* were answered, inserts nothing and answers with success and no processed event.
C8_NoOpRange ==
    \A r \in RunIds :
        ( /\ runs[r].pc = "done"
          /\ runs[r].currentBlock # NULL
          /\ runs[r].startBlock > runs[r].currentBlock
          /\ runs[r].fault # "fetch" )
            => /\ runs[r].status = 200
               /\ runs[r].processedEvents = <<>>
               /\ runs[r].inserted = {}

\* a run without fromBlock whose derived cursor is above the head: the head has
\* not advanced since the ledger's last entry, and older logs are still missing
C8_Witness ==
    \E r \in RunIds :
        /\ runs[r].pc = "done" /\ runs[r].status = 200
        /\ runs[r].fromBlock = NULL
        /\ runs[r].currentBlock # NULL
        /\ runs[r].startBlock > runs[r].currentBlock
        /\ \E l \in ChainLogs : /\ l.blockNumber <= runs[r].currentBlock
                                /\ ~Recorded(runs[r].treasuryId, l)

\* C9: a run one of whose two log fetches failed (exception or error envelope)
\* has answered with status 500 and has inserted nothing.
C9_NoPartialCommit ==
    \A r \in RunIds :
        runs[r].fault = "fetch"
            => /\ runs[r].pc = "done"
               /\ runs[r].status = 500
               /\ runs[r].inserted = {}
               /\ runs[r].failed = {}

\* the transfer fetch answered with an error envelope while the policy fetch
\* was answered and had logs to return
C9_Witness ==
    \E r \in RunIds :
        /\ runs[r].fault = "fetch"
        /\ runs[r].error = "RPC error fetching transfer logs"
        /\ PolicyLogs(runs[r].treasuryAddress, runs[r].startBlock, runs[r].currentBlock) # <<>>
        /\ runs[r].status = 500

\* C10: a run in which the timestamp lookup of one block failed still answers
\* with success, and every fetched log of another block was inserted or offered
\* to the store.
C10_TimestampFailureScoped ==
    \A r \in RunIds :
        runs[r].fault = "timestamp"
            => /\ runs[r].status = 200
               /\ \A l \in FetchedLogs(runs[r]) :
                      l.blockNumber # runs[r].failedBlock
                          => Recorded(runs[r].treasuryId, l) \/ Rejected(runs[r], l)

\* C11: a run that met a log whose payload is too short for its event still
\* answers with success, and every other fetched log was inserted or offered to
\* the store.
C11_DecodeFailureScoped ==
    \A r \in RunIds :
        runs[r].fault = "decode"
            => /\ runs[r].status = 200
               /\ \A l \in FetchedLogs(runs[r]) :
                      ~PolicyDecodeThrows(l)
                          => Recorded(runs[r].treasuryId, l) \/ Rejected(runs[r], l)

\* C12: after a completed run, every token-transfer log the run fetched has a
\* ledger entry of the deposit kind, a kind the store accepts, with the log's
\* tx_hash and log_index and no period index.
C12_DepositsRecorded ==
    \A r \in RunIds :
        (runs[r].pc = "done" /\ runs[r].status = 200)
            => \A l \in Range(runs[r].transferLogs) :
                   \E x \in BagToSet(ledger) :
                       /\ x.treasury_id = runs[r].treasuryId
                       /\ x.tx_hash = l.transactionHash
                       /\ x.log_index = l.logIndex
                       /\ x.event_type = "deposit"
                       /\ x.event_type \in AllowedEventTypes
                       /\ x.period_index = NULL

\* the rows a step adds to the ledger
Added == { x \in BagToSet(ledger') : CopiesIn(x, ledger') > CopiesIn(x, ledger) }

\* the number a string of decimal digits denotes
RECURSIVE DecimalValue(_)
DecimalValue(d) ==
    IF Len(d) = 0 THEN 0 ELSE 10 * DecimalValue(SubSeq(d, 1, Len(d) - 1)) + d[Len(d)]

\* the unsigned number a 32-byte word holds, digit by digit
RECURSIVE WordValue(_, _)
WordValue(w, k) == IF k = 0 THEN 0 ELSE 16 * WordValue(w, k - 1) + w[k]

\* C13: the entry a run stores for a Spend or Migration log with at least two
\* payload words has the kind of its topic 0, from and to the addresses of
\* topics 1 and 2 in lower case, amount the canonical decimal string of the first
\* word and period index the value of the second word; every stored field is
\* fixed by these, the block and the log position, so a third word changes none.
C13_DecodeCorrect ==
    [][\A r \in RunIds :
          (runs[r].pc = "policyInsert" /\ runs'[r].inserted # runs[r].inserted)
              => LET l == runs[r].logs[runs[r].i]
                 IN  /\ Len(l.data) >= 2
                     /\ Cardinality(Added) = 1
                     /\ \A x \in Added :
                          /\ DOMAIN x = {"treasury_id", "tx_hash", "block_number",
                                         "block_timestamp", "event_type", "from_address",
                                         "to_address", "amount", "period_index", "log_index"}
                          /\ x.treasury_id = runs[r].treasuryId
                          /\ x.tx_hash = l.transactionHash
                          /\ x.block_number = l.blockNumber
                          /\ x.block_timestamp = toISOString(BlockTime(l.blockNumber))
                          /\ x.log_index = l.logIndex
                          /\ l.topics[1] = EVENT_TOPICS.Spend => x.event_type = "spend"
                          /\ l.topics[1] = EVENT_TOPICS.Migration => x.event_type = "migration"
                          /\ x.from_address = Addr(l.topics[2].addr.h, FALSE)
                          /\ x.to_address = Addr(l.topics[3].addr.h, FALSE)
                          /\ DecimalValue(x.amount) = WordValue(l.data[1], Len(l.data[1]))
                          /\ Len(x.amount) > 1 => x.amount[1] # 0
                          /\ \A k \in 1..Len(x.amount) : x.amount[k] \in 0..9
                          /\ x.period_index = WordValue(l.data[2], Len(l.data[2]))]_vars

\* a run has stored the Migration log, which has a third word and mixed-case
\* addresses in its topics, and a Spend log
C13_Witness ==
    \E r \in RunIds :
        /\ <<"tx1", "migration", 0>> \in runs[r].inserted
        /\ <<"tx2", "spend", 0>> \in runs[r].inserted
        /\ \E l \in Range(runs[r].logs) :
              /\ l.transactionHash = "tx1" /\ Len(l.data) = 3
              /\ l.topics[2].addr.mixed /\ l.topics[3].addr.mixed
        /\ \E x \in BagToSet(ledger) : x.tx_hash = "tx1" /\ x.amount = <<1, 0, 0>>

\* C14: in every reachable ledger state an entry of kind spend or migration has
\* a period index and an entry of kind deposit or withdraw has none.
C14_PeriodIndexPresence ==
    \A x \in BagToSet(ledger) :
        /\ x.event_type \in {"spend", "migration"} => x.period_index # NULL
        /\ x.event_type \in {"deposit", "withdraw"} => x.period_index = NULL

\* log l comes before log m on the chain
Before(l, m) ==
    \/ l.blockNumber < m.blockNumber
    \/ l.blockNumber = m.blockNumber /\ l.logIndex < m.logIndex

\* the logs a run has dealt with before the log it is at
Handled(run) ==
    IF run.pc \in {"policy", "policyInsert"}
      THEN { run.logs[k] : k \in 1..(run.i - 1) }
      ELSE Range(run.logs) \cup { run.transferLogs[k] : k \in 1..(run.i - 1) }

\* C15: a run deals with its fetched logs, of both sets, in ascending
\* (block_number, log_index) order, and the events it reports are in block order.
C15_ChainOrder ==
    \A r \in RunIds :
        /\ runs[r].pc \in {"policy", "policyInsert", "transfer", "transferInsert"}
              => LET cur == IF runs[r].pc \in {"policy", "policyInsert"}
                              THEN runs[r].logs[runs[r].i]
                              ELSE runs[r].transferLogs[runs[r].i]
                 IN  \A m \in Handled(runs[r]) : Before(m, cur)
        /\ \A j, k \in 1..Len(runs[r].processedEvents) :
              j < k => runs[r].processedEvents[j].block_number
                           <= runs[r].processedEvents[k].block_number

\* C16: the body of a success response has syncedFrom equal to the lower bound
\* the run scanned from and syncedTo equal to the head the run read, with or
\* without events; eventsProcessed is the length of events, and events lists,
\* one for one, the rows this run inserted.
C16_RunOutput ==
    \A r \in RunIds :
        (runs[r].pc = "done" /\ runs[r].status = 200)
            => LET b == runs[r].body
               IN  /\ b.success
                   /\ b.syncedFrom = runs[r].startBlock
                   /\ b.syncedTo = runs[r].currentBlock
                   /\ b.eventsProcessed = Len(b.events)
                   /\ Len(b.events) = Cardinality(runs[r].inserted)
                   /\ \A k \in runs[r].inserted :
                          \E j \in 1..Len(b.events) :
                              b.events[j].tx_hash = k[1] /\ b.events[j].event_type = k[2]
                   /\ \A j \in 1..Len(b.events) :
                          \E x \in BagToSet(ledger) :
                              /\ x.treasury_id = runs[r].treasuryId
                              /\ ProcessedEvent(x) = b.events[j]
                              /\ <<x.tx_hash, x.event_type, x.log_index>> \in runs[r].inserted

\* one run answered with two events after an insert of its own was rejected, and
\* a run over a later range answered with none
C16_Witness ==
    \E q, r \in RunIds :
        /\ runs[q].pc = "done" /\ runs[q].status = 200
        /\ Len(runs[q].body.events) = 2 /\ runs[q].failed # {}
        /\ runs[q].body.syncedTo > runs[q].body.events[2].block_number
        /\ runs[r].pc = "done" /\ runs[r].status = 200
        /\ runs[r].body.events = <<>> /\ runs[r].body.eventsProcessed = 0
        /\ runs[r].body.syncedFrom > 0
        /\ runs[r].body.syncedTo >= runs[r].body.syncedFrom

\* the request of a run names no treasury address or no treasury id, or an
\* address that is not 40 hex digits
BadRequest(run) ==
    \/ run.treasuryAddress.h = ""
    \/ run.treasuryId = ""
    \/ run.treasuryAddress.h \notin HexAddrs

\* C17: a run whose request lacks treasuryAddress or treasuryId, or has a
\* malformed treasuryAddress, has answered with a 4xx status without any store
\* read, store write or RPC call.
C17_ValidationBeforeIO ==
    \A r \in RunIds :
        (runs[r].pc # "idle" /\ BadRequest(runs[r]))
            => /\ runs[r].pc = "done"
               /\ runs[r].status \in 400..499
               /\ runs[r].io = {}
               /\ runs[r].currentBlock = NULL /\ runs[r].startBlock = NULL
               /\ runs[r].inserted = {} /\ runs[r].failed = {}

\* one run was refused for a malformed address and one for a missing treasuryId,
\* while the chain has logs and the ledger has rows
C17_Witness ==
    \E q, r \in RunIds :
        /\ runs[q].pc = "done" /\ runs[q].treasuryAddress.h = "zz" /\ runs[q].status = 400
        /\ runs[r].pc = "done" /\ runs[r].treasuryId = "" /\ runs[r].status = 400
        /\ head > 0 /\ ledger # EmptyBag

\* the treasuries row of a run's treasuryId is missing or has no token address
Unresolvable(run) ==
    \A t \in treasuries : t.id = run.treasuryId => t.token_address.h = ""

\* C18: a run with a well-formed request whose treasuryId has no row, or a row
\* without token address, has answered with a 5xx status without any RPC call or
\* store write.
C18_ResolutionFailureFatal ==
    \A r \in RunIds :
        (runs[r].pc # "idle" /\ ~BadRequest(runs[r]) /\ Unresolvable(runs[r]))
            => /\ runs[r].pc = "done"
               /\ runs[r].status \in 500..599
               /\ runs[r].io \subseteq {"read"}
               /\ runs[r].currentBlock = NULL
               /\ runs[r].inserted = {} /\ runs[r].failed = {}

\* one run named an unknown treasuryId and one a treasury without token address
C18_Witness ==
    \E q, r \in RunIds :
        /\ runs[q].pc = "done" /\ runs[q].treasuryId = "T9" /\ runs[q].status = 500
        /\ runs[r].pc = "done" /\ runs[r].treasuryId = T3 /\ runs[r].status = 500
        /\ runs[q].io = {"read"} /\ runs[r].io = {"read"}

\* treasuries row t is one the request names, of the request's owner and chain
InScope(t, req) ==
    /\ t.id \in Range(req.staleTreasuryIds)
    /\ t.owner_address.h = req.ownerAddress.h
    /\ t.chain_id = req.chainId

\* every row a step removes is in the scope of an invocation that ends in that step
RemovesInScope ==
    \A t \in treasuries \ treasuries' :
        \E c \in CallIds : /\ calls[c].pc = "delete" /\ calls'[c].pc = "done"
                            /\ InScope(t, calls[c].request)

\* an answered invocation counts in deleted no more than the rows in its scope
CountsInScope ==
    \A c \in CallIds :
        (calls[c].pc = "done" /\ calls[c].status = 200)
            => /\ calls[c].body.deleted
                     <= Cardinality({ t \in InitialTreasuries : InScope(t, calls[c].request) })
               /\ \A t \in InitialTreasuries :
                      t.id \in calls[c].removed => InScope(t, calls[c].request)

\* C19: a Reconciler invocation removes a treasuries row only if the row's id is
\* in staleTreasuryIds and its owner and chain id are those of the request; rows
\* of another owner or chain stay in the store and are not counted in deleted.
C19_ReconcilerScoping == [][RemovesInScope]_vars /\ []CountsInScope

\* an invocation named a row of its owner together with a row of another owner,
\* a row of another chain and an unknown id: it removed the first only
C19_Witness ==
    \E c \in CallIds :
        /\ calls[c].pc = "done" /\ calls[c].status = 200
        /\ calls[c].request.staleTreasuryIds = <<T3, T4, "T9", T1>>
        /\ calls[c].request.ownerAddress = OwnerA /\ calls[c].request.chainId = 1
        /\ calls[c].removed = {T1}
        /\ calls[c].body.deleted = 1 /\ calls[c].body.scanned = 4
        /\ { t.id : t \in treasuries } \cap {T1, T3, T4} = {T3, T4}

\* C20: a run of the reconcile hook in which at least one bytecode check was
\* answered and every answered check reported no code submits no stale id, has
\* no treasuries row removed by its invocation, and returns deleted = 0.
C20_MassDeletionGuard ==
    \A h \in HookIds :
        LET hook == hooks[h]
        IN  ( /\ hook.pc \in {"invoked", "done"}
              /\ successfulChecks(hook.checks) # {}
              /\ \A id \in successfulChecks(hook.checks) : hook.checks[id] = "0x" )
                => /\ hook.submitted = {}
                   /\ hook.call # 0 => calls[hook.call].removed = {}
                   /\ (hook.pc = "done" /\ hook.error = "") => hook.result.deleted = 0

\* hook run h is one of useReconcileTreasuries.ts that has made its bytecode checks
CheckedRun(h) ==
    /\ hooks[h].source = "useReconcileTreasuries.ts"
    /\ hooks[h].pc \in {"invoked", "done"}
    /\ DOMAIN hooks[h].checks # {}

\* the ids of the rows removed by the invocation hook run h made
RemovedBy(h) == IF hooks[h].call = 0 THEN {} ELSE calls[hooks[h].call].removed

C22_TransportErrorNotStale ==
    \A h \in HookIds :
        hooks[h].pc \in {"invoked", "done"}
            => \A id \in DOMAIN hooks[h].checks :
                   hooks[h].checks[id] = "throw"
                       => /\ id \notin hooks[h].submitted
                          /\ id \notin RemovedBy(h)
                          /\ \A c \in CallIds :
                                 calls[c].origin = h
                                     => id \notin Range(calls[c].request.staleTreasuryIds)

\* in one run the lookup of one address threw and the other address had no
\* code: the second row was removed, the first is still in the store
C22_Witness ==
    \E h \in HookIds :
        /\ hooks[h].pc = "done"
        /\ \E id, jd \in DOMAIN hooks[h].checks :
              /\ hooks[h].checks[id] = "throw" /\ hooks[h].checks[jd] = "0x"
              /\ RemovedBy(h) = {jd}
              /\ id \in { t.id : t \in treasuries }

\* C23: the response of a Reconciler invocation has scanned equal to the number
\* of ids submitted and deleted equal to the number of treasuries rows the
\* invocation removed, also when invocations with common ids overlap.
C23_ReconcilerCounts ==
    \A c \in CallIds :
        (calls[c].pc = "done" /\ calls[c].status = 200)
            => /\ calls[c].body.scanned
                     = Len(SelectSeq(calls[c].request.staleTreasuryIds, LAMBDA id : id # ""))
               /\ calls[c].body.deleted = Cardinality(calls[c].removed)

\* a Reconciler request with an ownerAddress that is not 40 hex digits, a chainId
\* that is not a finite number, or a staleTreasuryIds that is not an array
BadReconcileRequest(req) ==
    \/ req.ownerAddress.h \notin HexAddrs
    \/ req.chainId = NULL
    \/ ~req.isArray

\* an invocation with a malformed request has made no store access and is
\* answered, once it is answered, with a 4xx status
RefusedWithoutAccess ==
    \A c \in CallIds :
        (calls[c].pc # "idle" /\ BadReconcileRequest(calls[c].request))
            => /\ calls[c].pc \in {"received", "done"}
               /\ calls[c].pc = "done" => calls[c].status \in 400..499
               /\ calls[c].io = {}
               /\ calls[c].removed = {}

\* a step of an invocation with a malformed request leaves the store as it is
RefusalKeepsStore ==
    \A c \in CallIds :
        (calls'[c] # calls[c] /\ BadReconcileRequest(calls'[c].request))
            => treasuries' = treasuries /\ ledger' = ledger

\* C24: a Reconciler request with a malformed ownerAddress, a chainId that is
\* not a finite number or a staleTreasuryIds that is not an array is answered
\* with a 4xx status without any store access, and the store is unchanged.
C24_ReconcilerValidation == [][RefusalKeepsStore]_vars /\ []RefusedWithoutAccess

\* one invocation was refused for its ownerAddress and one for its chainId or
\* its staleTreasuryIds, each naming a row that is in the store
C24_Witness ==
    \E c, d \in CallIds :
        /\ calls[c].pc = "done" /\ calls[c].status = 400
        /\ calls[c].error = "Invalid ownerAddress"
        /\ calls[d].pc = "done" /\ calls[d].status = 400
        /\ calls[d].error \in {"Invalid chainId", "staleTreasuryIds must be an array"}
        /\ \E t \in treasuries : t.id \in Range(calls[c].request.staleTreasuryIds)

\* a step that changes the treasuries table only removes rows, and is the delete
\* step of a Reconciler invocation
OnlyReconcilerRemoves ==
    treasuries' # treasuries
        => /\ treasuries' \subseteq treasuries
           /\ \E c \in CallIds :
                 /\ calls[c].pc = "delete" /\ calls'[c].pc = "done"
                 /\ { t.id : t \in treasuries \ treasuries' } \subseteq calls[c].deletableIds

\* every row removed by the invocation of a hook run had its bytecode check
\* answered with the empty code in that run
RemovedWereEmpty ==
    \A c \in CallIds :
        calls[c].origin # 0
            => \A id \in calls[c].removed :
                   /\ id \in DOMAIN hooks[calls[c].origin].checks
                   /\ hooks[calls[c].origin].checks[id] = "0x"

\* C25: a treasuries row leaves the store only in the delete step of the
\* Reconciler, and a row removed for a run of the reconcile hook had its
\* bytecode check answered with exactly "0x" in that run; a row whose check
\* returned code, undefined or an error is not removed by the run.
C25_DeletionOnlyWhenAbsent == [][OnlyReconcilerRemoves]_vars /\ []RemovedWereEmpty

\* a hook run had the row without code removed, while the row whose check
\* returned undefined stays in the store
C25_Witness ==
    \E h \in HookIds :
        /\ hooks[h].pc = "done" /\ hooks[h].call # 0
        /\ \E id, jd \in DOMAIN hooks[h].checks :
              /\ hooks[h].checks[id] = "undefined" /\ hooks[h].checks[jd] = "0x"
              /\ calls[hooks[h].call].removed = {jd}
              /\ \E t \in treasuries : t.id = id
              /\ \A t \in treasuries : t.id # jd

\* every ledger row references a treasury row that exists
NoOrphans == \A x \in BagToSet(ledger) : x.treasury_id \in { t.id : t \in treasuries }

\* a step that removes treasury rows leaves no ledger row of them
CascadeStep == \A t \in treasuries \ treasuries' : RowsOf(ledger', t.id) = {}

\* C26: deleting a treasury removes all its ledger rows, and under any interleaving
\* of Reconciler deletions, Ingestor runs and direct writes no ledger row references
\* a treasury that does not exist
C26_CascadeIntegrity == [][CascadeStep]_vars /\ []NoOrphans

\* T1 was deleted after a run had inserted rows for it (they are gone), and the
\* run's next insert was refused by the foreign key
C26_Witness ==
    /\ \E c \in CallIds : T1 \in calls[c].removed
    /\ \E r \in RunIds :
          /\ runs[r].inserted # {}
          /\ \E key \in runs[r].failed \ runs[r].lost : key[2] \in AllowedEventTypes
    /\ RowsOf(ledger, T1) = {}

\* a ledger row is still there, as it was, unless its treasury was deleted in the step
RowsStay ==
    \A x \in BagToSet(ledger) :
        \/ CopiesIn(x, ledger') >= CopiesIn(x, ledger)
        \/ x.treasury_id \in { t.id : t \in treasuries \ treasuries' }

\* C27: the ledger is append-only: no step of the Ingestor, the direct-write path or
\* the Reconciler changes or removes an existing ledger row, except that the rows of
\* a treasury go when the treasury is deleted
C27_LedgerAppendOnly == [][RowsStay]_vars

\* T1 has a row written by an Ingestor run and a row written directly, and the
\* Reconciler has deleted T2
C27_Witness ==
    /\ \E r \in RunIds : runs[r].inserted # {}
    /\ \E x \in RowsOf(ledger, T1) : x.tx_hash = WithdrawPayload.tx_hash
    /\ Cardinality(RowsOf(ledger, T1)) >= 2
    /\ \E c \in CallIds : calls[c].removed = {T2}

\* a step of the reconcile flow other than the delete of an invocation: the hook
\* lists, checks, invokes or returns, or the function validates and looks up
FlowStepBeforeDelete ==
    \/ hooks' # hooks
    \/ \E c \in CallIds : calls'[c] # calls[c] /\ calls[c].pc # "delete"

RetrySafe == FlowStepBeforeDelete => UNCHANGED <<treasuries, ledger>>

\* C28: the reconcile flow changes nothing in the store before the deletion call:
\* every step of the hook and of the function up to the delete leaves the treasuries
\* and the ledger as they are, so stopping before the delete leaves no effect
C28_ReconcileRetrySafe == [][RetrySafe]_vars

\* a hook run has made its checks and invoked the function, the function has looked
\* the rows up and not yet deleted, and the store holds all treasuries and a ledger row
C28_Witness ==
    \E h \in HookIds :
        /\ hooks[h].pc = "invoked"
        /\ hooks[h].source = "useReconcileTreasuries.ts"
        /\ calls[hooks[h].call].pc = "delete"
        /\ treasuries = InitialTreasuries
        /\ RowsOf(ledger, T1) # {}

\* every address in the two tables is in lower case
AllLowerCase ==
    /\ \A t \in treasuries :
          /\ ~t.address.mixed /\ ~t.owner_address.mixed
          /\ ~t.token_address.mixed /\ ~t.migration_target.mixed
    /\ \A x \in BagToSet(ledger) : ~x.from_address.mixed /\ ~x.to_address.mixed

\* a reconcile request and the same request in lower case are answered alike and
\* select the same rows of the table as it is
ReconcileCaseBlind ==
    \A req \in ReconcileMixedRequests \cup OwnerAStaleRequests :
        LET low == [req EXCEPT !.ownerAddress = toLowerCase(@)]
        IN  /\ ReconcileValidationError(req) = ReconcileValidationError(low)
            /\ deletableIds(treasuries, req) = deletableIds(treasuries, low)
            /\ \A n \in 0..Cardinality(treasuries) : ReconcileBody(req, n) = ReconcileBody(low, n)

\* a registration and the same registration in lower case leave the same table
CreateCaseBlind ==
    \A treasury \in TreasuryInserts, id \in NewIds :
        LET low == [f \in DOMAIN treasury |-> toLowerCase(treasury[f])]
        IN  Upsert(treasuries, Payload(treasury, 1), id) = Upsert(treasuries, Payload(low, 1), id)

\* C29: every address written by registration, by the direct-write path and by the
\* Ingestor is in lower case, and two Reconciler or registration requests that differ
\* only in the letter case of an address select the same rows and have the same effect
C29_CaseNormalization == AllLowerCase /\ ReconcileCaseBlind /\ CreateCaseBlind

\* a treasury registered from mixed-case addresses has been deleted on a request
\* with a mixed-case owner, another one is registered, and the ledger holds a row
\* of an Ingestor run and a directly written row
C29_Witness ==
    /\ \E c \in CallIds : calls[c].request.ownerAddress.mixed /\ calls[c].removed \cap NewIds # {}
    /\ \E t \in treasuries : t.id \in NewIds /\ t.address = toLowerCase(Treasury5Address)
    /\ \E r \in RunIds : runs[r].inserted # {}
    /\ \E x \in RowsOf(ledger, T1) : x.tx_hash = WithdrawPayload.tx_hash
    /\ Cardinality(RowsOf(ledger, T1)) >= 2

\* how many times block b was requested by a run
TimesRequested(run, b) == Cardinality({ k \in 1..Len(run.requests) : run.requests[k] = b })

\* C30: within one Ingestor run eth_getBlockByNumber is requested at most once per
\* block number, whatever the number of logs of the two log sets in that block, and
\* the cache is not shared between runs: every timestamp a run holds it requested itself
C30_TimestampMemoization ==
    \A r \in RunIds :
        /\ \A b \in Blocks : TimesRequested(runs[r], b) <= 1
        /\ runs[r].cache \subseteq Range(runs[r].requests)

\* a run has finished both loops with a policy log and a transfer log in block 0 and
\* two policy logs in block 1, and another run has requested block 0 as well
C30_Witness ==
    \E r \in RunIds, q \in RunIds :
        /\ r # q
        /\ runs[r].pc = "done" /\ runs[r].status = 200
        /\ \E k \in 1..Len(runs[r].logs) : runs[r].logs[k].blockNumber = 0
        /\ \E k \in 1..Len(runs[r].transferLogs) : runs[r].transferLogs[k].blockNumber = 0
        /\ Cardinality({ k \in 1..Len(runs[r].logs) : runs[r].logs[k].blockNumber = 1 }) = 2
        /\ TimesRequested(runs[r], 0) = 1 /\ TimesRequested(runs[r], 1) = 1
        /\ TimesRequested(runs[q], 0) = 1

\* C31: a run whose eth_blockNumber response carried an error envelope answers
\* with a 5xx status, has sent no eth_getLogs request with an undefined upper
\* bound, and has written no ledger row.
C31_HeadLookupFailure ==
    \A r \in RunIds :
        runs[r].blockNumResult = "error"
            => /\ runs[r].pc = "done" /\ runs[r].status >= 500
               /\ runs[r].toBlock = NULL
               /\ runs[r].inserted = {}

\* C32: the 'has migration' query of a treasury is true if and only if the ledger
\* holds a row of that treasury with the event type the Ingestor stores for a
\* Migration log.
C32_MigrationDetection ==
    \A t \in treasuries :
        useTreasuryHasMigration(ledger, t.id)
            <=> \E x \in RowsOf(ledger, t.id) : x.event_type = PolicyEventType(EVENT_TOPICS.Migration)

\* the contract address registered for a treasury id
RegisteredAddress(tid) == (CHOOSE t \in treasuries : t.id = tid).address

\* log l was emitted by the contract registered for tid, or is a token transfer into it
EmittedFor(l, tid) ==
    \/ l.address.h = RegisteredAddress(tid).h
    \/ /\ l.topics[1] = EVENT_TOPICS.Transfer
       /\ l.topics[3].addr.h = RegisteredAddress(tid).h

\* C33: every ledger row the Ingestor inserted under a treasury id comes from a log
\* of the contract registered for that id (or from a token transfer into it), and a
\* run whose treasuryAddress is not the address registered for its treasuryId has
\* inserted nothing.
C33_Attribution ==
    /\ \A x \in BagToSet(ledger) :
          \E l \in ChainLogs : /\ l.transactionHash = x.tx_hash
                                /\ l.logIndex = x.log_index
                                /\ EmittedFor(l, x.treasury_id)
    /\ \A r \in RunIds :
          (runs[r].pc # "idle" /\ runs[r].treasuryAddress.h # RegisteredAddress(runs[r].treasuryId).h)
              => runs[r].inserted = {}

\* the ledger holds a row of the treasury for the transaction and event of log l,
\* written by the Ingestor or directly
Present(tid, l) ==
    \E x \in RowsOf(ledger, tid) :
        x.tx_hash = l.transactionHash /\ x.event_type = PolicyEventType(l.topics[1])

\* C34: after a run without fromBlock has answered with success for head H, every
\* Spend and Migration log of the treasury at a block up to H is in the ledger, also
\* when direct writes for the treasury were made before or between the runs.
C34_CompleteWithTwoWriters ==
    \A r \in RunIds :
        (runs[r].pc = "done" /\ runs[r].status = 200 /\ runs[r].fromBlock = NULL)
            => \A l \in ChainLogs :
                   ( /\ l.address.h = runs[r].treasuryAddress.h
                     /\ PolicyEventType(l.topics[1]) # ""
                     /\ l.blockNumber <= runs[r].currentBlock )
                       => Present(runs[r].treasuryId, l)

\* the number of ledger rows of treasury tid for the spend of transaction tx
SpendEntries(tid, tx) ==
    LET m == { x \in RowsOf(ledger, tid) : x.tx_hash = tx /\ x.event_type = "spend" }
    IN  BagCardinality([x \in m |-> CopiesIn(x, ledger)])

\* a run has offered the Spend log of transaction tx to the store
OfferedSpend(run, tx) ==
    \E k \in run.inserted \cup run.failed : k[1] = tx /\ k[2] = "spend"

\* C35: a confirmed spend recorded by the direct-write path (no log_index) and seen
\* by the Ingestor as a Spend log (with log_index), in either order, has exactly one
\* ledger row for the transaction's spend: never two, and one once either writer
\* has offered it.
C35_OneEntryPerSpend ==
    /\ SpendEntries(SpendPayload.treasury_id, SpendPayload.tx_hash) <= 1
    /\ \A r \in RunIds :
          (runs[r].treasuryId = SpendPayload.treasury_id
             /\ OfferedSpend(runs[r], SpendPayload.tx_hash))
              => SpendEntries(SpendPayload.treasury_id, SpendPayload.tx_hash) = 1

\* the direct write came first: the row without log_index is in the ledger, a run
\* did not find it in its existence check and its insert was refused as a duplicate
C35_Witness ==
    /\ \E x \in RowsOf(ledger, SpendPayload.treasury_id) :
          x.tx_hash = SpendPayload.tx_hash /\ x.log_index = NULL
    /\ \E r \in RunIds : <<SpendPayload.tx_hash, "spend", 0>> \in runs[r].lost

\* the rows the Ingestor runs created, by key
CreatedByRuns == UNION { runs[r].inserted : r \in RunIds }

\* the runs whose response lists the row of key k in its events
ReportedBy(k) ==
    { r \in RunIds :
        /\ runs[r].pc = "done" /\ runs[r].status = 200
        /\ \E j \in 1..Len(runs[r].body.events) :
              /\ runs[r].body.events[j].tx_hash = k[1]
              /\ runs[r].body.events[j].event_type = k[2] }

\* eventsProcessed of the response of run r, 0 for an error response
EventsProcessed(r) ==
    IF runs[r].pc = "done" /\ runs[r].status = 200 THEN runs[r].body.eventsProcessed ELSE 0

RECURSIVE SumEventsProcessed(_)
SumEventsProcessed(R) ==
    IF R = {} THEN 0
    ELSE LET r == CHOOSE q \in R : TRUE IN EventsProcessed(r) + SumEventsProcessed(R \ {r})

\* C36: once the runs have answered, each ledger row created by an Ingestor run is
\* in the events list of exactly one response, and the sum of eventsProcessed over
\* the responses is the number of rows the runs created.
C36_NoDoubleReporting ==
    (\A r \in RunIds : runs[r].pc \in {"idle", "done"})
        => /\ \A k \in CreatedByRuns : Cardinality(ReportedBy(k)) = 1
           /\ SumEventsProcessed(RunIds) = Cardinality(CreatedByRuns)

\* the ledger rows for the withdrawAll transaction, with copies
WithdrawEntries ==
    LET m == { x \in BagToSet(ledger) : x.tx_hash = WithdrawPayload.tx_hash }
    IN  BagCardinality([x \in m |-> CopiesIn(x, ledger)])

\* C37: once the withdrawAll transaction submitted through the page is confirmed, a
\* withdraw row for it is written in the end, in every order of the confirmation,
\* the loading of the treasury's store row and the reset of the write state; and at
\* most one such row is written.
C37_WithdrawRecorded ==
    /\ [](WithdrawEntries <= 1)
    /\ (page.confirmed ~> (WithdrawEntries = 1))

\* the treasuries rows of the owner and chain of hook run h that are in the store
OwnerRows(h) ==
    { t \in treasuries : /\ t.owner_address = toLowerCase(hooks[h].ownerAddress)
                         /\ t.chain_id = hooks[h].chainId }

\* no invocation other than the one of hook run h has removed a row
NoOtherRemoval(h) == \A c \in CallIds : c # hooks[h].call => calls[c].removed = {}

============================================================================
